---- MODULE Spec2Model ----
(***************************************************************************)
(* Round-robin shift scheduler (src/src/scripts/schedule-generator.js) and *)
(* the checks of its test suite (src/src/tests/schedule-generator-tests.js)*)
(* as a state machine.  One call of an entry point is followed from its    *)
(* argument check through every iteration of its round loop to its return  *)
(* (or its throw); the returned schedule is then handed to getScheduleStats*)
(* and checkConsecutiveWork.                                               *)
(*                                                                         *)
(* schedule-generator.js holds two generations of the generator: lines     *)
(* 1-229 (parity-dispatching generateSchedule, fair BYE rotation, circle   *)
(* method) and lines 230-401 (index-based generateSchedule).  They are     *)
(* modelled as separate entry points.                                      *)
(***************************************************************************)
EXTENDS Integers, Sequences, FiniteSets, TLC

\* Largest participant count passed to an entry point.
MaxN == 10
\* Arguments range down to -MaxNeg.
MaxNeg == 2
\* Hand-made schedules given to getScheduleStats: participants 1..MaxStatN,
\* at most MaxStatPairs pairs in at most MaxStatRounds rounds.
MaxStatN == 3
MaxStatPairs == 2
MaxStatRounds == 2
\* Hand-made inputs of findValidPairs: employees out of 1..MaxPairN, a prior
\* schedule of at most MaxPriorPairs pairs (in at most MaxStatRounds rounds).
MaxPairN == 4
MaxPriorPairs == 2

\* The 'BYE' placeholder: a value that is no participant number (1..N).
BYE == 0
\* `let employeeWithBye = null`
NullEmployee == -1

VARIABLES
    fn,                 \* the entry point that was called
    arg,                \* its argument numEmployees, as passed
    pc,                 \* position of the call
    numEmployees,       \* the local numEmployees (the circle method rebinds it)
    totalRounds,
    employees,
    round,              \* loop counter of the round loop
    roundPairs,
    schedule,
    byeAssignments,
    employeeWithBye,
    fallbackRounds,     \* rounds whose pairs came from the adjacent-pairing fallback
    returned,           \* TRUE once the entry point returned a value
    result,             \* the value it returned
    error,              \* the message of the Error it threw, "" if none
    stats,              \* <<>> or <<getScheduleStats(result)>>
    consecutiveWorkers  \* <<>> or <<checkConsecutiveWork(result, arg)>>

callVars == <<fn, arg>>
locals == <<numEmployees, totalRounds, employees, round, roundPairs, schedule,
            byeAssignments, employeeWithBye, fallbackRounds>>
outVars == <<returned, result, error>>
checkVars == <<stats, consecutiveWorkers>>
vars == <<callVars, pc, locals, outVars, checkVars>>

EntryPoints == {"generateSchedule", "generateScheduleCircleMethod"}
Args == (0 - MaxNeg)..MaxN

----------------------------------------------------------------------------
(* JavaScript helpers *)

\* a % b of JavaScript for b > 0: the result has the sign of a.
JsMod(a, b) == IF a >= 0 THEN a % b ELSE 0 - ((0 - a) % b)

\* Array.from({length: n}, (_, i) => i + 1); a length below 1 gives [].
Range(n) == [i \in 1..n |-> i]

\* pair.includes(x)
Includes(seq, x) == \E k \in 1..Len(seq) : seq[k] = x

\* typeof x === 'number'
IsNumber(x) == x # BYE

RECURSIVE Flatten(_)
\* array.flat(): one level.
Flatten(ss) == IF ss = <<>> THEN <<>> ELSE Head(ss) \o Flatten(Tail(ss))

IsOdd(n) == JsMod(n, 2) # 0

----------------------------------------------------------------------------
(* generateScheduleCircleMethod, lines 117-153 *)

\* Seeded fault: the argument check lets 1 through.
CircleGuardOffByOne(n) == n < 1

CircleGuard(n) == n < 2

\* Seeded fault: one round too many.
CircleTotalRoundsExtra(n) == n

CircleTotalRounds(n) == n - 1

\* Seeded fault: position i is paired with its neighbour, not its opposite.
AdjacentPair(emps, n, i) == <<emps[i + 1], emps[i + 2]>>

\* [employees[i], employees[numEmployees - 1 - i]], i counted from 0.
OppositePair(emps, n, i) == <<emps[i + 1], emps[n - i]>>

\* Seeded fault: the BYE pairs are kept.
FilterNothing(pairs) == pairs

FilterBye(pairs) == SelectSeq(pairs, LAMBDA pair : ~Includes(pair, BYE))

\* Seeded fault: the first seat rotates with the others.
RotateAll(emps, n) == <<emps[n]>> \o SubSeq(emps, 1, n - 1)

\* Seeded fault: the seating is never rotated.
RotateNone(emps, n) == emps

\* Seeded fault: the seating is rotated the other way round.
RotateLeft(emps, n) == <<emps[1]>> \o SubSeq(emps, 3, n) \o <<emps[2]>>

\* [fixed, employees[numEmployees - 1], ...employees.slice(1, numEmployees - 1)]
Rotate(emps, n) == <<emps[1], emps[n]>> \o SubSeq(emps, 2, n - 1)

Throw(msg) ==
    /\ pc' = "error"
    /\ error' = msg
    /\ UNCHANGED <<locals, returned, result>>

EnterCircle(n) ==
    IF CircleGuard(n)
    THEN Throw("Number of employees must be at least 2")
    ELSE /\ employees' = IF IsOdd(n) THEN Append(Range(n), BYE) ELSE Range(n)
         /\ numEmployees' = IF IsOdd(n) THEN n + 1 ELSE n
         /\ totalRounds' = CircleTotalRounds(numEmployees')
         /\ schedule' = <<>>
         /\ round' = 0
         /\ roundPairs' = <<>>
         /\ pc' = "circlePair"
         /\ UNCHANGED <<byeAssignments, employeeWithBye, fallbackRounds, outVars>>

\* One iteration of the inner loop (line 138-140); i is roundPairs.length.
CirclePair ==
    /\ pc = "circlePair"
    /\ round < totalRounds
    /\ 2 * Len(roundPairs) < numEmployees
    /\ roundPairs' = Append(roundPairs, OppositePair(employees, numEmployees, Len(roundPairs)))
    /\ UNCHANGED <<callVars, pc, numEmployees, totalRounds, employees, round, schedule,
                   byeAssignments, employeeWithBye, fallbackRounds, outVars, checkVars>>

\* The rest of the round (lines 142-149): drop BYE pairs, record, rotate.
CircleRotate ==
    /\ pc = "circlePair"
    /\ round < totalRounds
    /\ ~(2 * Len(roundPairs) < numEmployees)
    /\ schedule' = Append(schedule, FilterBye(roundPairs))
    /\ employees' = Rotate(employees, numEmployees)
    /\ round' = round + 1
    /\ roundPairs' = <<>>
    /\ UNCHANGED <<callVars, pc, numEmployees, totalRounds,
                   byeAssignments, employeeWithBye, fallbackRounds, outVars, checkVars>>

\* return schedule (line 152)
CircleReturn ==
    /\ pc = "circlePair"
    /\ ~(round < totalRounds)
    /\ returned' = TRUE
    /\ result' = schedule
    /\ pc' = "done"
    /\ UNCHANGED <<callVars, locals, error, checkVars>>

----------------------------------------------------------------------------
(* findValidPairs, lines 86-114 *)

\* Seeded fault: no pair counts as used.
PairNeverUsed(sched, emp1, emp2) == FALSE

\* Seeded fault: a used pair is recognised in one element order only.
PairUsedOneWay(sched, emp1, emp2) ==
    \E r \in 1..Len(sched) : \E p \in 1..Len(sched[r]) :
        sched[r][p][1] = emp1 /\ sched[r][p][2] = emp2

\* schedule.some(round => round.some(pair => ...)), lines 96-101
PairUsed(sched, emp1, emp2) ==
    \E r \in 1..Len(sched) : \E p \in 1..Len(sched[r]) :
        \/ (sched[r][p][1] = emp1 /\ sched[r][p][2] = emp2)
        \/ (sched[r][p][1] = emp2 /\ sched[r][p][2] = emp1)

\* The result null, and a result that is a list of pairs.
NoPairs == [ok |-> FALSE, pairs |-> <<>>]
SomePairs(ps) == [ok |-> TRUE, pairs |-> ps]

\* Seeded fault: only the first employee is taken out, the partner stays.
WithoutFirst(emps, i) == Tail(emps)

\* employees.filter((_, index) => index !== 0 && index !== i), i counted from 0.
WithoutIndices(emps, i) ==
    [k \in 1..(Len(emps) - 2) |-> IF k + 1 < i + 1 THEN emps[k + 1] ELSE emps[k + 2]]

RECURSIVE findValidPairs(_, _)
RECURSIVE TryPartners(_, _, _)
RECURSIVE TryPartnersGreedy(_, _, _)

\* Seeded fault: greedy, the first unused partner is final (no backtracking).
TryPartnersGreedy(emps, sched, i) ==
    IF ~(i < Len(emps))
    THEN NoPairs
    ELSE IF ~PairUsed(sched, emps[1], emps[i + 1])
         THEN LET remainingPairs == findValidPairs(WithoutIndices(emps, i), sched)
              IN  IF remainingPairs.ok
                  THEN SomePairs(<<<<emps[1], emps[i + 1]>>>> \o remainingPairs.pairs)
                  ELSE NoPairs
         ELSE TryPartnersGreedy(emps, sched, i + 1)

\* The loop `for (let i = 1; i < employees.length; i++)` from index i on.
TryPartners(emps, sched, i) ==
    IF ~(i < Len(emps))
    THEN NoPairs
    ELSE LET emp1 == emps[1]
             emp2 == emps[i + 1]
         IN  IF ~PairUsed(sched, emp1, emp2)
             THEN LET remainingPairs == findValidPairs(WithoutIndices(emps, i), sched)
                  IN  IF remainingPairs.ok
                      THEN SomePairs(<<<<emp1, emp2>>>> \o remainingPairs.pairs)
                      ELSE TryPartners(emps, sched, i + 1)
             ELSE TryPartners(emps, sched, i + 1)

findValidPairs(emps, sched) ==
    IF Len(emps) = 0 THEN SomePairs(<<>>)
    ELSE IF Len(emps) = 1 THEN NoPairs
    ELSE TryPartners(emps, sched, 1)

----------------------------------------------------------------------------
(* generateScheduleWithFairByeRotation, lines 25-81 *)

FairGuard(n) == n < 3

\* Seeded fault: the round count of the circle method.
FairTotalRoundsShort(n) == n - 1

FairTotalRounds(n) == n

\* Seeded fault: the scan starts one seat late.
ByeCandidateLate(emps, rnd, i) == emps[JsMod(rnd + i + 1, Len(emps)) + 1]

\* employees[(round + i) % employees.length], i counted from 0.
ByeCandidate(emps, rnd, i) == emps[JsMod(rnd + i, Len(emps)) + 1]

\* Lines 43-50: the first candidate without a BYE so far, or null.
SelectBye(emps, rnd, byes) ==
    LET free == {i \in 0..(Len(emps) - 1) : ByeCandidate(emps, rnd, i) \notin byes}
    IN  IF free = {}
        THEN NullEmployee
        ELSE ByeCandidate(emps, rnd, CHOOSE i \in free : \A j \in free : i <= j)

\* Seeded fault: the employee with the BYE is not taken out.
RemainingEmployeesAll(emps, bye) == emps

\* employees.filter(emp => !usedEmployees.has(emp)), usedEmployees = {employeeWithBye}
RemainingEmployees(emps, bye) == SelectSeq(emps, LAMBDA emp : emp \notin {bye})

\* Lines 70-74: adjacent pairs of the remaining employees.
FallbackPairs(rem) == [k \in 1..(Len(rem) \div 2) |-> <<rem[2 * k - 1], rem[2 * k]>>]

EnterFair(n) ==
    IF FairGuard(n)
    THEN Throw("Number of employees must be at least 3 for fair BYE rotation")
    ELSE /\ employees' = Range(n)
         /\ numEmployees' = n
         /\ totalRounds' = FairTotalRounds(n)
         /\ schedule' = <<>>
         /\ byeAssignments' = {}
         /\ round' = 0
         /\ pc' = "fairBye"
         /\ UNCHANGED <<roundPairs, employeeWithBye, fallbackRounds, outVars>>

\* Lines 39-60: pick the employee who sits out this round.
ChooseBye ==
    /\ pc = "fairBye"
    /\ round < totalRounds
    /\ LET found == SelectBye(employees, round, byeAssignments)
       IN  IF found = NullEmployee
           THEN /\ employeeWithBye' = employees[JsMod(round, Len(employees)) + 1]
                /\ byeAssignments' = {employeeWithBye'}
           ELSE /\ employeeWithBye' = found
                /\ byeAssignments' = byeAssignments \cup {found}
    /\ roundPairs' = <<>>
    /\ pc' = "fairPair"
    /\ UNCHANGED <<callVars, numEmployees, totalRounds, employees, round, schedule,
                   fallbackRounds, outVars, checkVars>>

\* Lines 62-77: pair the others by backtracking, else adjacent; record the round.
PairRound ==
    /\ pc = "fairPair"
    /\ LET remainingEmployees == RemainingEmployees(employees, employeeWithBye)
           pairs == findValidPairs(remainingEmployees, schedule)
       IN  /\ roundPairs' = IF pairs.ok THEN pairs.pairs
                            ELSE FallbackPairs(remainingEmployees)
           /\ fallbackRounds' = IF pairs.ok THEN fallbackRounds
                                ELSE fallbackRounds \cup {round}
    /\ schedule' = Append(schedule, roundPairs')
    /\ round' = round + 1
    /\ pc' = "fairBye"
    /\ UNCHANGED <<callVars, numEmployees, totalRounds, employees, byeAssignments,
                   employeeWithBye, outVars, checkVars>>

\* return schedule (line 80)
FairReturn ==
    /\ pc = "fairBye"
    /\ ~(round < totalRounds)
    /\ returned' = TRUE
    /\ result' = schedule
    /\ pc' = "done"
    /\ UNCHANGED <<callVars, locals, error, checkVars>>

----------------------------------------------------------------------------
(* generateSchedule, lines 6-18 *)

GenerateScheduleGuard(n) == n < 2

GenerateSchedule(n) ==
    IF GenerateScheduleGuard(n)
    THEN Throw("Number of employees must be at least 2")
    ELSE IF IsOdd(n) THEN EnterFair(n) ELSE EnterCircle(n)

\* A caller invokes entry point f with argument n.
Call(f, n) ==
    /\ pc = "idle"
    /\ fn' = f
    /\ arg' = n
    /\ IF f = "generateSchedule" THEN GenerateSchedule(n) ELSE EnterCircle(n)
    /\ UNCHANGED checkVars

----------------------------------------------------------------------------
(* getScheduleStats, lines 185-219 *)

\* [...pair].sort((a, b) => a - b) of a two-element pair: a copy, ascending.
SortedPair(pair) == IF pair[1] - pair[2] > 0 THEN <<pair[2], pair[1]>> ELSE pair

\* `${sortedPair[0]}-${sortedPair[1]}`
PairKey(pair) == ToString(SortedPair(pair)[1]) \o "-" \o ToString(SortedPair(pair)[2])

\* All pairs of the schedule in round order (what the nested forEach visits).
PairsOf(sched) == Flatten(sched)

\* [...new Set(schedule.flat(2).filter(x => typeof x === 'number'))], as a set.
AllEmployees(sched) ==
    LET flat == Flatten(Flatten(sched))
    IN  {flat[k] : k \in {j \in 1..Len(flat) : IsNumber(flat[j])}}

\* The keys added to allPairs (lines 196-198).
AllPairs(sched) ==
    LET ps == PairsOf(sched)
    IN  {PairKey(ps[k]) : k \in {j \in 1..Len(ps) : ~Includes(ps[j], BYE)}}

\* employeeShifts after the loop: 0 plus one per counted pair holding emp
\* in position 0 and one per counted pair holding it in position 1.
EmployeeShifts(sched) ==
    LET ps == PairsOf(sched)
        counted == {j \in 1..Len(ps) : ~Includes(ps[j], BYE)}
    IN  [emp \in AllEmployees(sched) |->
            Cardinality({j \in counted : ps[j][1] = emp})
            + Cardinality({j \in counted : ps[j][2] = emp})]

\* Seeded fault: pairs counted with repetition.
ExpectedPairsWithSelf(n) == (n * (n + 1)) \div 2

\* totalEmployees * (totalEmployees - 1) / 2 (lines 215 and 217)
ExpectedPairs(n) == (n * (n - 1)) \div 2

getScheduleStats(sched) ==
    LET totalEmployees == Cardinality(AllEmployees(sched))
        allPairs == AllPairs(sched)
    IN  [totalEmployees |-> totalEmployees,
         totalRounds |-> Len(sched),
         shiftsPerRound |-> IF Len(sched) > 0 THEN Len(sched[1]) ELSE 0,
         totalUniquePairs |-> Cardinality(allPairs),
         expectedPairs |-> ExpectedPairs(totalEmployees),
         employeeShifts |-> EmployeeShifts(sched),
         isComplete |-> Cardinality(allPairs) = ExpectedPairs(totalEmployees)]

\* Seeded fault: pair.sort(...) without the copy sorts the pair of the schedule.
PairSortedInPlace(pair) == SortedPair(pair)

\* What line 197 leaves in the schedule's pair: [...pair] is a fresh array and sort
\* works on that copy, so the pair keeps its element order.
PairAfterSort(pair) == pair

\* The schedule after the nested forEach (lines 194-204): the only array the loop
\* body could write to is the pair it sorts; pairs with BYE are not sorted at all.
ScheduleAfterStats(sched) ==
    [r \in 1..Len(sched) |->
        [k \in 1..Len(sched[r]) |->
            IF Includes(sched[r][k], BYE) THEN sched[r][k]
            ELSE PairAfterSort(sched[r][k])]]

\* The caller hands the returned schedule to getScheduleStats.
GetStats ==
    /\ pc = "done"
    /\ stats = <<>>
    /\ stats' = <<getScheduleStats(result)>>
    /\ result' = ScheduleAfterStats(result)
    /\ UNCHANGED <<callVars, pc, locals, returned, error, consecutiveWorkers>>

----------------------------------------------------------------------------
(* checkConsecutiveWork, schedule-generator-tests.js lines 133-153 *)

RECURSIVE Dedupe(_)
\* new Set(list): the members in order of first insertion.
Dedupe(seq) ==
    IF seq = <<>> THEN <<>>
    ELSE LET init == Dedupe(SubSeq(seq, 1, Len(seq) - 1))
             last == seq[Len(seq)]
         IN  IF Includes(init, last) THEN init ELSE Append(init, last)

\* new Set(round.flat().filter(emp => typeof emp === 'number'))
RoundEmployees(rnd) == Dedupe(SelectSeq(Flatten(rnd), IsNumber))

\* roundEmployees.forEach (lines 144-149) for the round with index roundIndex, on
\* st = [last |-> lastRoundWorked, found |-> consecutiveWorkers].  A Set holds each
\* employee once and the body reads and writes lastRoundWorked[emp] only, so every
\* employee of the round sees the entries the earlier rounds left.  An employee
\* outside 1..employeeCount has no entry yet (undefined === n is false).
ScanRound(st, emps, roundIndex) ==
    LET hits == SelectSeq(emps, LAMBDA emp :
                    emp \in DOMAIN st.last /\ st.last[emp] = roundIndex - 1)
    IN  [last |-> [emp \in DOMAIN st.last \cup {emps[j] : j \in 1..Len(emps)} |->
                      IF Includes(emps, emp) THEN roundIndex ELSE st.last[emp]],
         found |-> st.found \o
                   [j \in 1..Len(hits) |->
                       [employee |-> hits[j],
                        rounds |-> <<st.last[hits[j]], roundIndex>>]]]

\* lastRoundWorked[i] = -2 for i = 1..employeeCount
NeverWorked == -2

\* schedule.forEach((round, roundIndex) => ...): after[k] is the state after k rounds.
checkConsecutiveWork(sched, employeeCount) ==
    LET after[k \in 0..Len(sched)] ==
            IF k = 0
            THEN [last |-> [i \in 1..employeeCount |-> NeverWorked], found |-> <<>>]
            ELSE ScanRound(after[k - 1], RoundEmployees(sched[k]), k - 1)
    IN  after[Len(sched)].found

\* verifySchedule hands the schedule and the original count to checkConsecutiveWork.
CheckConsecutive ==
    /\ pc = "done"
    /\ consecutiveWorkers = <<>>
    /\ consecutiveWorkers' = <<checkConsecutiveWork(result, arg)>>
    /\ UNCHANGED <<callVars, pc, locals, outVars, stats>>

----------------------------------------------------------------------------

Init ==
    /\ fn = "" /\ arg = 0 /\ pc = "idle"
    /\ numEmployees = 0 /\ totalRounds = 0 /\ employees = <<>>
    /\ round = 0 /\ roundPairs = <<>> /\ schedule = <<>>
    /\ byeAssignments = {} /\ employeeWithBye = NullEmployee /\ fallbackRounds = {}
    /\ returned = FALSE /\ result = <<>> /\ error = ""
    /\ stats = <<>> /\ consecutiveWorkers = <<>>

Next ==
    \/ \E f \in EntryPoints, n \in Args : Call(f, n)
    \/ CirclePair
    \/ CircleRotate
    \/ CircleReturn
    \/ ChooseBye
    \/ PairRound
    \/ FairReturn
    \/ GetStats
    \/ CheckConsecutive

Spec == Init /\ [][Next]_vars

----------------------------------------------------------------------------
(* Properties of the returned schedule *)

\* The call of entry point f has returned.
Returned(f) == returned /\ fn = f

ReturnedEven(f) == Returned(f) /\ arg >= 2 /\ ~IsOdd(arg)
ReturnedOdd(f) == Returned(f) /\ arg >= 3 /\ IsOdd(arg)

\* How many pairs of the schedule join a and b, in either element order.
Occurrences(sched, a, b) ==
    LET ps == Flatten(sched)
    IN  Cardinality({k \in 1..Len(ps) : {ps[k][1], ps[k][2]} = {a, b}})

\* Every unordered pair of distinct participants of 1..n exactly once, and n(n-1)/2
\* pairs in all (so nothing else either).
EveryPairOnce(sched, n) ==
    /\ \A a, b \in 1..n : a < b => Occurrences(sched, a, b) = 1
    /\ Len(Flatten(sched)) = (n * (n - 1)) \div 2

\* How many pairs of round rnd hold participant e.
Appearances(rnd, e) == Cardinality({k \in 1..Len(rnd) : Includes(rnd[k], e)})

\* The participants of 1..n in no pair of round rnd.
Absent(rnd, n) == {e \in 1..n : Appearances(rnd, e) = 0}

\* How many non-BYE pairs of the schedule hold participant e.
Shifts(sched, e) ==
    LET ps == Flatten(sched)
    IN  Cardinality({k \in 1..Len(ps) : ~Includes(ps[k], BYE) /\ Includes(ps[k], e)})

\* C1: for odd N >= 3 the schedule returned by generateSchedule(N) (fair BYE
\* rotation) holds every unordered pair of distinct participants of 1..N exactly
\* once: none missing, none twice, N*(N-1)/2 pairs in total.
C1_FairRotationComplete ==
    ReturnedOdd("generateSchedule") => EveryPairOnce(result, arg)

C1_Witness == ReturnedOdd("generateSchedule") /\ arg >= 7 /\ Len(Flatten(result)) >= 21

\* C2: for even N >= 2 the schedule returned by generateScheduleCircleMethod(N), and
\* so by generateSchedule(N), has N-1 rounds that hold every unordered pair of
\* distinct participants of 1..N exactly once, N*(N-1)/2 pairs, none twice.
C2_CircleComplete ==
    \A f \in EntryPoints :
        ReturnedEven(f) => /\ EveryPairOnce(result, arg)
                           /\ Len(result) = arg - 1

C2_Witness == ReturnedEven("generateScheduleCircleMethod") /\ arg >= 8 /\ Len(result) >= 7

\* C3: in every round of a schedule returned by generateSchedule(N) or
\* generateScheduleCircleMethod(N), N >= 2, each participant is in at most one pair,
\* and the two elements of every pair differ.
C3_RoundsDisjoint ==
    returned =>
        \A r \in 1..Len(result) :
            /\ \A e \in 1..arg : Appearances(result[r], e) <= 1
            /\ \A k \in 1..Len(result[r]) : result[r][k][1] # result[r][k][2]

C3_Witness ==
    /\ Returned("generateScheduleCircleMethod") /\ IsOdd(arg) /\ arg >= 5
    /\ \E r \in 1..Len(result) : Len(result[r]) >= 2

\* C4: for even N >= 2 generateSchedule(N) returns N-1 rounds of N/2 pairs each, and
\* every participant of 1..N is in every round.
C4_EvenShape ==
    ReturnedEven("generateSchedule") =>
        /\ Len(result) = arg - 1
        /\ \A r \in 1..Len(result) :
            /\ 2 * Len(result[r]) = arg
            /\ Absent(result[r], arg) = {}

C4_Witness == ReturnedEven("generateSchedule") /\ arg >= 6 /\ Len(result) = arg - 1

\* C5: for odd N >= 3 generateSchedule(N) returns N rounds of (N-1)/2 pairs each,
\* exactly one participant is absent from each round, and every participant of 1..N
\* is the absent one in exactly one round.
C5_OddShapeAndByes ==
    ReturnedOdd("generateSchedule") =>
        /\ Len(result) = arg
        /\ \A r \in 1..Len(result) :
            /\ 2 * Len(result[r]) = arg - 1
            /\ Cardinality(Absent(result[r], arg)) = 1
        /\ \A e \in 1..arg :
            Cardinality({r \in 1..Len(result) : e \in Absent(result[r], arg)}) = 1

C5_Witness ==
    /\ ReturnedOdd("generateSchedule") /\ arg >= 5
    /\ \E r \in 1..Len(result) : Absent(result[r], arg) = {arg}

\* C6: generateSchedule(n) and generateScheduleCircleMethod(n) with n < 2 throw
\* before anything is constructed: nothing is returned, no schedule (not even an
\* empty one) and no seating is built.
C6_TooFewThrows ==
    (pc # "idle" /\ arg < 2) =>
        /\ pc = "error" /\ error # ""
        /\ ~returned /\ result = <<>>
        /\ schedule = <<>> /\ employees = <<>> /\ round = 0

C6_Witness ==
    /\ pc = "error" /\ fn = "generateScheduleCircleMethod" /\ arg = 1
    /\ error = "Number of employees must be at least 2"

\* C7: for every valid N, in the schedule returned by generateSchedule(N) every
\* participant of 1..N is in exactly N-1 non-BYE pairs, so the largest and the
\* smallest shift count are equal; getScheduleStats counts the same.
C7_EqualShifts ==
    /\ (Returned("generateSchedule") /\ arg >= 2) =>
            \A e \in 1..arg : Shifts(result, e) = arg - 1
    /\ (Returned("generateSchedule") /\ arg >= 2 /\ stats # <<>>) =>
            /\ DOMAIN stats[1].employeeShifts = 1..arg
            /\ \A e \in 1..arg : stats[1].employeeShifts[e] = arg - 1

C7_Witness ==
    /\ ReturnedOdd("generateSchedule") /\ arg >= 5 /\ stats # <<>>
    /\ stats[1].employeeShifts[arg] = arg - 1

\* C8: for every valid N, getScheduleStats(generateSchedule(N)) has isComplete true,
\* totalEmployees = N, expectedPairs = N*(N-1)/2 and totalUniquePairs = expectedPairs.
C8_StatsComplete ==
    (Returned("generateSchedule") /\ arg >= 2 /\ stats # <<>>) =>
        /\ stats[1].isComplete = TRUE
        /\ stats[1].totalEmployees = arg
        /\ stats[1].expectedPairs = (arg * (arg - 1)) \div 2
        /\ stats[1].totalUniquePairs = stats[1].expectedPairs

C8_Witness ==
    /\ Returned("generateSchedule") /\ arg >= 6 /\ stats # <<>>
    /\ stats[1].totalUniquePairs >= 15

\* C9: for even N, checkConsecutiveWork finds nobody working two adjacent rounds of
\* the schedule returned by generateSchedule(N): it returns an empty list.
C9_NoConsecutiveWork ==
    (ReturnedEven("generateSchedule") /\ consecutiveWorkers # <<>>) =>
        consecutiveWorkers[1] = <<>>

\* C10: generateSchedule(4) returns the rounds [(1,4),(2,3)], [(1,3),(4,2)],
\* [(1,2),(3,4)], in this round, pair and element order.
C10_ScheduleOfFour ==
    (Returned("generateSchedule") /\ arg = 4) =>
        result = << << <<1, 4>>, <<2, 3>> >>,
                    << <<1, 3>>, <<4, 2>> >>,
                    << <<1, 2>>, <<3, 4>> >> >>

C10_Witness == Returned("generateSchedule") /\ arg = 4 /\ Len(result) = 3

----------------------------------------------------------------------------
(* Properties of the odd-N generators *)

\* C11: for odd N >= 3 generateScheduleCircleMethod(N) returns N rounds of (N-1)/2
\* pairs each, no returned pair holds the BYE placeholder, and every unordered pair
\* of distinct participants of 1..N occurs exactly once.
C11_CircleOddComplete ==
    ReturnedOdd("generateScheduleCircleMethod") =>
        /\ Len(result) = arg
        /\ \A r \in 1..Len(result) :
            /\ 2 * Len(result[r]) = arg - 1
            /\ \A k \in 1..Len(result[r]) : ~Includes(result[r][k], BYE)
        /\ EveryPairOnce(result, arg)

C11_Witness ==
    /\ ReturnedOdd("generateScheduleCircleMethod") /\ arg >= 7
    /\ Len(result) = arg /\ Len(result[1]) = 3

\* C16: for odd N >= 3 the participant sitting out round r (counted from 0) of the
\* fair BYE rotation is participant r+1, and the reset branch (every employee has
\* had a BYE) is never taken: the scan always finds a candidate.
C16_ByeOrder ==
    /\ (pc = "fairPair") =>
            /\ employeeWithBye = round + 1
            /\ byeAssignments = 1..(round + 1)
    /\ (pc = "fairBye" /\ round < totalRounds) =>
            /\ SelectBye(employees, round, byeAssignments) # NullEmployee
            /\ byeAssignments = 1..round

C16_Witness == pc = "fairPair" /\ arg >= 7 /\ round = arg - 1 /\ employeeWithBye = arg

\* C17: for odd N >= 3 findValidPairs finds a pairing in every round of the fair
\* BYE rotation, so the adjacent-pairing fallback is never executed.
C17_NoFallback ==
    /\ fallbackRounds = {}
    /\ (pc = "fairPair") =>
            findValidPairs(RemainingEmployees(employees, employeeWithBye), schedule).ok

C17_Witness ==
    /\ ReturnedOdd("generateSchedule") /\ arg >= 9 /\ Len(result) = arg
    /\ fallbackRounds = {}

\* C19: for odd N >= 3 each participant of 1..N is absent from exactly one of the N
\* rounds returned by generateScheduleCircleMethod(N); participant 1 never leaves
\* seat 0 and after the N rotations the seating is back in its initial order.
C19_CircleOddByeFair ==
    /\ (fn = "generateScheduleCircleMethod" /\ pc \in {"circlePair", "done"}) =>
            employees[1] = 1
    /\ ReturnedOdd("generateScheduleCircleMethod") =>
            /\ Len(result) = arg
            /\ \A e \in 1..arg :
                Cardinality({r \in 1..Len(result) : e \in Absent(result[r], arg)}) = 1
            /\ employees = Append(Range(arg), BYE)

C19_Witness ==
    /\ ReturnedOdd("generateScheduleCircleMethod") /\ arg >= 5
    /\ Absent(result[1], arg) = {1} /\ Absent(result[2], arg) = {arg - 1}

----------------------------------------------------------------------------
(* getScheduleStats on any schedule *)

\* The ordered pairs of distinct elements of vals.
OrderedPairs(vals) == {p \in vals \X vals : p[1] # p[2]}

\* The list flat cut into rounds after the positions cuts[1] <= cuts[2] <= ...
Layout(flat, cuts) ==
    [j \in 1..(Len(cuts) + 1) |->
        SubSeq(flat,
               (IF j = 1 THEN 0 ELSE cuts[j - 1]) + 1,
               IF j = Len(cuts) + 1 THEN Len(flat) ELSE cuts[j])]

\* Every schedule of at most maxPairs pairs of ps in at most maxRounds rounds, none
\* of them empty, and the empty schedule.
SchedulesOver(ps, maxPairs, maxRounds) ==
    {<<>>} \cup
    UNION {UNION {{Layout(flat, cuts) :
                        cuts \in {c \in [1..(r - 1) -> 1..(k - 1)] :
                                     \A j \in 1..(r - 2) : c[j] < c[j + 1]}} :
                    flat \in [1..k -> ps], r \in 1..maxRounds} :
           k \in 1..maxPairs}

\* A caller holds a schedule over the participants 1..arg (some pairs with BYE).
StatsInit ==
    /\ fn = "getScheduleStats" /\ pc = "done"
    /\ arg \in 1..MaxStatN
    /\ result \in SchedulesOver(OrderedPairs((1..arg) \cup {BYE}), MaxStatPairs, MaxStatRounds)
    /\ numEmployees = 0 /\ totalRounds = 0 /\ employees = <<>>
    /\ round = 0 /\ roundPairs = <<>> /\ schedule = <<>>
    /\ byeAssignments = {} /\ employeeWithBye = NullEmployee /\ fallbackRounds = {}
    /\ returned = FALSE /\ error = ""
    /\ stats = <<>> /\ consecutiveWorkers = <<>>

StatsNext == GetStats

SpecStats == StatsInit /\ [][StatsNext]_vars

\* The distinct unordered non-BYE pairs of a schedule.
DistinctPairs(sched) ==
    LET ps == Flatten(sched)
    IN  {{ps[k][1], ps[k][2]} : k \in {j \in 1..Len(ps) : ~Includes(ps[j], BYE)}}

\* C12: for a schedule over the participants 1..N, getScheduleStats reports
\* expectedPairs = N*(N-1)/2 for the original N, and isComplete exactly when the
\* schedule has N*(N-1)/2 distinct unordered non-BYE pairs, also when a participant
\* of 1..N is in no pair.
C12_ExpectedOfOriginalCount ==
    (fn = "getScheduleStats" /\ stats # <<>>) =>
        /\ stats[1].expectedPairs = (arg * (arg - 1)) \div 2
        /\ stats[1].isComplete =
                (Cardinality(DistinctPairs(result)) = (arg * (arg - 1)) \div 2)

\* C13: getScheduleStats leaves the schedule it is given unchanged: the same
\* rounds, the same pairs in the same order, the same element order in every pair.
C13_StatsLeavesSchedule ==
    [][(stats = <<>> /\ stats' # <<>>) => result' = result]_vars

C13_Witness ==
    /\ fn = "getScheduleStats" /\ stats # <<>> /\ stats[1].totalUniquePairs >= 1
    /\ Len(result) = 2
    /\ \E k \in 1..Len(result[2]) :
        /\ ~Includes(result[2][k], BYE)
        /\ result[2][k][1] > result[2][k][2]

----------------------------------------------------------------------------
(* findValidPairs on any employees and prior schedule *)

\* The members of the set of numbers es as an ascending list.
Ascending(es) ==
    [k \in 1..Cardinality(es) |->
        CHOOSE e \in es : Cardinality({d \in es : d < e}) = k - 1]

\* A caller holds an ascending list of distinct employees and a prior schedule.
PairsInit ==
    /\ fn = "findValidPairs" /\ arg = 0 /\ pc = "pairsCall"
    /\ schedule \in SchedulesOver(OrderedPairs(1..MaxPairN), MaxPriorPairs, MaxStatRounds)
    /\ employees \in {Ascending(es) : es \in SUBSET (1..MaxPairN)}
    /\ numEmployees = 0 /\ totalRounds = 0
    /\ round = 0 /\ roundPairs = <<>>
    /\ byeAssignments = {} /\ employeeWithBye = NullEmployee /\ fallbackRounds = {}
    /\ returned = FALSE /\ result = <<>> /\ error = ""
    /\ stats = <<>> /\ consecutiveWorkers = <<>>

\* findValidPairs(employees, schedule) runs and returns.
FindPairs ==
    /\ pc = "pairsCall"
    /\ result' = findValidPairs(employees, schedule)
    /\ returned' = TRUE
    /\ pc' = "pairsDone"
    /\ UNCHANGED <<callVars, locals, error, checkVars>>

PairsNext == FindPairs

SpecPairs == PairsInit /\ [][PairsNext]_vars

\* The set of the members of a list.
Members(seq) == {seq[k] : k \in 1..Len(seq)}

\* The unordered pairs that occur in a schedule, in either element order.
UsedPairs(sched) ==
    LET ps == Flatten(sched) IN {{ps[k][1], ps[k][2]} : k \in 1..Len(ps)}

\* ps pairs up the employees es exactly: every member of es in exactly one pair,
\* nobody else in any.
Partitions(ps, es) ==
    /\ \A k \in 1..Len(ps) : ps[k][1] # ps[k][2] /\ {ps[k][1], ps[k][2]} \subseteq es
    /\ \A e \in es : Cardinality({k \in 1..Len(ps) : Includes(ps[k], e)}) = 1

RECURSIVE Matchable(_, _)
\* es can be split into pairs none of which is in used.
Matchable(es, used) ==
    \/ es = {}
    \/ \E a \in es : \E b \in es :
        /\ a < b /\ \A c \in es : a <= c
        /\ {a, b} \notin used
        /\ Matchable(es \ {a, b}, used)

\* C14: findValidPairs(E, S) returns null or a list of pairs that partitions E
\* exactly and holds no pair that occurs in S in either element order; it returns
\* null for every E of odd size.
C14_PairingSound ==
    (fn = "findValidPairs" /\ returned) =>
        /\ result.ok =>
            /\ Partitions(result.pairs, Members(employees))
            /\ \A k \in 1..Len(result.pairs) :
                {result.pairs[k][1], result.pairs[k][2]} \notin UsedPairs(schedule)
        /\ (Len(employees) % 2 = 1) => ~result.ok

C14_Witness ==
    /\ fn = "findValidPairs" /\ returned /\ result.ok
    /\ Len(employees) = 4 /\ Len(result.pairs) = 2
    /\ <<2, 1>> \in Members(Flatten(schedule))
    /\ result.pairs[1] = <<1, 3>>

\* C15: findValidPairs is a complete search: for E of even size it returns a pairing
\* whenever E can be split into pairs none of which occurs in S, and null only when
\* it cannot.
C15_PairingComplete ==
    (fn = "findValidPairs" /\ returned /\ Len(employees) % 2 = 0) =>
        (result.ok <=> Matchable(Members(employees), UsedPairs(schedule)))

\* The first partner of the first employee leads to a dead end and is given up.
C15_Witness ==
    /\ fn = "findValidPairs" /\ returned /\ result.ok
    /\ employees = <<1, 2, 3, 4>> /\ <<3, 4>> \in Members(Flatten(schedule))
    /\ result.pairs = << <<1, 3>>, <<2, 4>> >>

----------------------------------------------------------------------------
(* generateSchedule, the index-based variant, lines 235-280 *)

IndexedGuard(n) == n < 2

\* const shiftsPerRound = numEmployees / 2 (line 251), numEmployees even by then.
ShiftsPerRound(n) == n \div 2

\* [employees[0], employees[numEmployees - 1]] (line 259).
FirstPair(emps, n) == <<emps[1], emps[n]>>

\* firstIndex and secondIndex of lines 263-264, for round rnd and position i, both
\* counted from 0 as in the code.
FirstIndex(rnd, n, i) == 1 + JsMod(rnd + i - 1, n - 1)
SecondIndex(rnd, n, i) == 1 + JsMod(rnd + n - 2 - i, n - 1)

\* [employees[firstIndex], employees[secondIndex]] (line 266).
IndexedPairAt(emps, rnd, n, i) ==
    <<emps[FirstIndex(rnd, n, i) + 1], emps[SecondIndex(rnd, n, i) + 1]>>

\* Lines 236-252: the guard, the employee list with BYE for an odd count, the
\* round count.
IndexedCall(n) ==
    /\ pc = "idle"
    /\ fn' = "generateScheduleIndexBased"
    /\ arg' = n
    /\ IF IndexedGuard(n)
       THEN Throw("Number of employees must be at least 2")
       ELSE /\ employees' = IF IsOdd(n) THEN Append(Range(n), BYE) ELSE Range(n)
            /\ numEmployees' = IF IsOdd(n) THEN n + 1 ELSE n
            /\ totalRounds' = numEmployees' - 1
            /\ schedule' = <<>>
            /\ round' = 0
            /\ roundPairs' = <<>>
            /\ pc' = "indexedRound"
            /\ UNCHANGED <<byeAssignments, employeeWithBye, fallbackRounds, outVars>>
    /\ UNCHANGED checkVars

\* The start of a round (lines 255-259): the fixed first pair.
IndexedFirstPair ==
    /\ pc = "indexedRound"
    /\ round < totalRounds
    /\ roundPairs' = <<FirstPair(employees, numEmployees)>>
    /\ pc' = "indexedPairs"
    /\ UNCHANGED <<callVars, numEmployees, totalRounds, employees, round, schedule,
                   byeAssignments, employeeWithBye, fallbackRounds, outVars, checkVars>>

\* One iteration of the inner loop (lines 262-267); i is roundPairs.length.
IndexedPair ==
    /\ pc = "indexedPairs"
    /\ Len(roundPairs) < ShiftsPerRound(numEmployees)
    /\ roundPairs' = Append(roundPairs,
            IndexedPairAt(employees, round, numEmployees, Len(roundPairs)))
    /\ UNCHANGED <<callVars, pc, numEmployees, totalRounds, employees, round, schedule,
                   byeAssignments, employeeWithBye, fallbackRounds, outVars, checkVars>>

\* The end of a round (lines 270-277): drop the BYE pairs of an odd count, record.
\* The employee list is left as it is.
IndexedPush ==
    /\ pc = "indexedPairs"
    /\ ~(Len(roundPairs) < ShiftsPerRound(numEmployees))
    /\ schedule' = Append(schedule,
            IF IsOdd(arg) THEN FilterBye(roundPairs) ELSE roundPairs)
    /\ round' = round + 1
    /\ roundPairs' = <<>>
    /\ pc' = "indexedRound"
    /\ UNCHANGED <<callVars, numEmployees, totalRounds, employees,
                   byeAssignments, employeeWithBye, fallbackRounds, outVars, checkVars>>

\* return schedule (line 279)
IndexedReturn ==
    /\ pc = "indexedRound"
    /\ ~(round < totalRounds)
    /\ returned' = TRUE
    /\ result' = schedule
    /\ pc' = "done"
    /\ UNCHANGED <<callVars, locals, error, checkVars>>

IndexedNext ==
    \/ \E n \in Args : IndexedCall(n)
    \/ IndexedFirstPair
    \/ IndexedPair
    \/ IndexedPush
    \/ IndexedReturn
    \/ GetStats

SpecIndexed == Init /\ [][IndexedNext]_vars

\* C18: for every even N >= 2 the index-based generateSchedule(N) returns N-1 rounds
\* in which every participant appears exactly once per round and every unordered pair
\* of distinct participants appears exactly once overall, so that getScheduleStats
\* reports isComplete true.
C18_IndexedComplete ==
    ReturnedEven("generateScheduleIndexBased") =>
        /\ Len(result) = arg - 1
        /\ \A r \in 1..Len(result) : \A e \in 1..arg : Appearances(result[r], e) = 1
        /\ EveryPairOnce(result, arg)
        /\ stats # <<>> => stats[1].isComplete = TRUE

====
